---- MODULE Spec2Model ----
(***************************************************************************)
(* Model of txt_maker.py: a crawler that follows "next page" links and     *)
(* concatenates the body paragraphs of every page into one text file.      *)
(*                                                                         *)
(* Strings are sequences of atoms.  An atom is one character, except for   *)
(* a few fixed multi-character pieces that the program never looks        *)
(* inside ("http://h", the javascript sentinel).  NBSP is U+00A0.          *)
(***************************************************************************)
EXTENDS Integers, Sequences, FiniteSets, TLC

\* ------------------------------------------------------------------ bounds
\* cap on the number of HTTP requests of one run (a cyclic site never ends)
MaxFetches == 3

\* longest string of the enumerated inputs of the helper functions
MaxStrLen == 4
\* most <p> elements of an enumerated document
MaxParas == 3

\* ----------------------------------------------------------------- strings
NBSP == "nbsp"
\* Python's None, kept distinct from every string the program handles
None == <<"<None>">>
EmptyStr == <<>>

\* str.isspace() on one character; U+00A0 is whitespace in Python 3
IsSpace(c) == c \in {" ", "\n", "\t", NBSP}

RECURSIVE LStrip(_)
LStrip(s) == IF s = <<>> THEN s
             ELSE IF IsSpace(Head(s)) THEN LStrip(Tail(s)) ELSE s

RECURSIVE RStrip(_)
RStrip(s) == IF s = <<>> THEN s
             ELSE IF IsSpace(s[Len(s)]) THEN RStrip(SubSeq(s, 1, Len(s) - 1)) ELSE s

\* str.strip()
Strip(s) == RStrip(LStrip(s))

\* str.lower() on one atom
LowerCh(c) ==
  CASE c = "U" -> "u" [] c = "N" -> "n" [] c = "T" -> "t" [] c = "I" -> "i"
    [] c = "L" -> "l" [] c = "E" -> "e" [] c = "D" -> "d" [] c = "M" -> "m"
    [] c = "C" -> "c"
    [] c = "JavaScript:Void(0);" -> "javascript:void(0);"
    [] OTHER -> c

\* str.lower()
Lower(s) == [i \in 1..Len(s) |-> LowerCh(s[i])]

\* concatenation of a sequence of strings: "".join(parts)
RECURSIVE Concat(_)
Concat(parts) == IF parts = <<>> THEN <<>> ELSE Head(parts) \o Concat(Tail(parts))

\* s.startswith(p)
IsPrefix(p, s) == Len(p) <= Len(s) /\ SubSeq(s, 1, Len(p)) = p

\* --------------------------------------------------------- sanitize_filename
Untitled == <<"u", "n", "t", "i", "t", "l", "e", "d">>
MaxNameLen == 200
ForbiddenChars == {"\\", "/", "*", "?", ":", "\"", "<", ">", "|"}

\* CollapseSpaces with the pattern ' +': only runs of the ordinary space
CollapseSpaces_SpacesOnly(s) ==
  LET starts == SelectSeq([i \in 1..Len(s) |-> i],
                          LAMBDA i : s[i] # " " \/ i = 1 \/ s[i - 1] # " ")
  IN  [k \in 1..Len(starts) |-> IF s[starts[k]] = " " THEN "_" ELSE s[starts[k]]]

\* re.sub(r'\s+', '_', s): every maximal run of whitespace becomes one "_";
\* the positions that stay are the other characters and the start of each run
CollapseSpaces(s) ==
  LET Starts(t) == SelectSeq([i \in 1..Len(t) |-> i],
                             LAMBDA i : ~IsSpace(t[i]) \/ i = 1 \/ ~IsSpace(t[i - 1]))
      Sub(t, starts) ==
        [k \in 1..Len(starts) |-> IF IsSpace(t[starts[k]]) THEN "_" ELSE t[starts[k]]]
  IN  CHOOSE r \in {Sub(t, Starts(t)) : t \in {s}} : TRUE

\* re.sub(r'[\\/*?:"<>|]', '', s)
RemoveForbidden(s) == SelectSeq(s, LAMBDA c : c \notin ForbiddenChars)

\* s[:n]
Truncate(s, n) == IF Len(s) <= n THEN s ELSE SubSeq(s, 1, n)

\* s.strip('.') == ""
OnlyDots(s) == \A i \in 1..Len(s) : s[i] = "."

\* sanitize_filename comparing with "untitled" without lower()
sanitize_filename_CaseSensitive(filename) ==
  IF filename = None \/ filename = EmptyStr THEN Untitled
  ELSE LET t == Truncate(RemoveForbidden(CollapseSpaces(Strip(filename))), MaxNameLen)
       IN  IF t = <<>> \/ OnlyDots(t) \/ t = Untitled THEN Untitled ELSE t

sanitize_filename(filename) ==
  IF filename = None \/ filename = EmptyStr THEN Untitled
  ELSE LET Checked(t) ==
             IF t = <<>> \/ OnlyDots(t) \/ Lower(t) = Untitled THEN Untitled ELSE t
       IN  CHOOSE r \in {Checked(t) : t \in
                 {Truncate(RemoveForbidden(CollapseSpaces(Strip(filename))), MaxNameLen)}} : TRUE

\* --------------------------------------------------------------- documents
\* A parsed document (soup) is a record
\*   spans   : the <span> elements in document order, [classes, strings]
\*   ps      : the <p> elements in document order,
\*             [hasClass, parents (nearest first), strings (text nodes)]
\*   anchors : the <a> elements in document order, [id, classes, hasHref, href]

\* tag.get_text(): the text nodes joined, nothing stripped
get_text(tag) == Concat(tag.strings)

\* tag.get_text(strip=True): every text node stripped, empty ones dropped
RECURSIVE StripAll(_)
StripAll(strings) ==
  IF strings = <<>> THEN <<>>
  ELSE LET h == Strip(Head(strings))
       IN  IF h = <<>> THEN StripAll(Tail(strings)) ELSE <<h>> \o StripAll(Tail(strings))

get_text_strip(tag) == Concat(StripAll(tag.strings))

Range(s) == {s[i] : i \in 1..Len(s)}

\* ------------------------------------------------- extract_title_for_filename
Separator == <<NBSP, NBSP>>

\* position of the first occurrence of sep in s, 0 if it does not occur
FindSub(s, sep) ==
  LET hits == {i \in 1..(Len(s) - Len(sep) + 1) : SubSeq(s, i, i + Len(sep) - 1) = sep}
  IN  IF hits = {} THEN 0 ELSE CHOOSE i \in hits : \A j \in hits : i <= j

\* AfterFirst splitting at the last occurrence: raw.rsplit(sep, 1)[1]
AfterFirst_Last(s, sep) ==
  LET hits == {i \in 1..(Len(s) - Len(sep) + 1) : SubSeq(s, i, i + Len(sep) - 1) = sep}
      k == CHOOSE i \in hits : \A j \in hits : j <= i
  IN  SubSeq(s, k + Len(sep), Len(s))

\* raw.split(sep, 1)[1]
AfterFirst(s, sep) == SubSeq(s, FindSub(s, sep) + Len(sep), Len(s))

IsTitleSpan(e) == "title" \in Range(e.classes)

\* soup.find('span', class_='title'): index of the first match, 0 if none
FindTitleSpan(spans) ==
  IF \E i \in 1..Len(spans) : IsTitleSpan(spans[i])
  THEN CHOOSE i \in 1..Len(spans) :
         IsTitleSpan(spans[i]) /\ \A j \in 1..(i - 1) : ~IsTitleSpan(spans[j])
  ELSE 0

extract_title_for_filename(soup) ==
  LET k == FindTitleSpan(soup.spans)
      raw_title_text == IF k = 0 THEN EmptyStr ELSE get_text(soup.spans[k])
      cleaned_candidate(raw) ==
        IF k # 0 /\ FindSub(raw, Separator) # 0
        THEN Strip(AfterFirst(raw, Separator)) ELSE EmptyStr
      output_filename_base(cleaned) ==
        IF cleaned # EmptyStr THEN cleaned ELSE Untitled
  IN  CHOOSE r \in {sanitize_filename(output_filename_base(c)) : c \in
            {cleaned_candidate(raw) : raw \in {raw_title_text}}} : TRUE

\* ------------------------------------------------ extract_relevant_paragraphs
ExcludedTags == {"header", "footer", "nav", "aside"}

\* the extractor looking at p_tag.parent only, not at every ancestor
RECURSIVE extract_relevant_paragraphs_from_ParentOnly(_)
extract_relevant_paragraphs_from_ParentOnly(ps) ==
  IF ps = <<>> THEN <<>>
  ELSE LET p_tag == Head(ps)
           rest == extract_relevant_paragraphs_from_ParentOnly(Tail(ps))
           text == get_text_strip(p_tag)
       IN  IF p_tag.hasClass THEN rest
           ELSE IF p_tag.parents # <<>> /\ p_tag.parents[1] \in ExcludedTags THEN rest
           ELSE IF text # EmptyStr THEN <<text>> \o rest
           ELSE rest

RECURSIVE extract_relevant_paragraphs_from(_)
extract_relevant_paragraphs_from(ps) ==
  IF ps = <<>> THEN <<>>
  ELSE LET p_tag == Head(ps)
           rest == extract_relevant_paragraphs_from(Tail(ps))
           text == get_text_strip(p_tag)
       IN  IF p_tag.hasClass THEN rest
           ELSE IF \E i \in 1..Len(p_tag.parents) : p_tag.parents[i] \in ExcludedTags THEN rest
           ELSE IF text # EmptyStr THEN <<text>> \o rest
           ELSE rest

extract_relevant_paragraphs(soup) == extract_relevant_paragraphs_from(soup.ps)

\* -------------------------------------------------------------------- urljoin
SchemeHost == "http://h"

\* index of the last "/" of s, 0 if there is none
LastSlash(s) ==
  LET hits == {i \in 1..Len(s) : s[i] = "/"}
  IN  IF hits = {} THEN 0 ELSE CHOOSE i \in hits : \A j \in hits : j <= i

\* urllib.parse.urljoin for references without query, fragment or dot segments:
\* an empty reference is the base, a reference with a scheme is itself, a
\* reference starting with "/" replaces the path, any other replaces the last
\* path segment of the base
urljoin(base, url) ==
  IF url = EmptyStr THEN base
  ELSE IF Head(url) = SchemeHost THEN url
  ELSE IF Head(url) = "/" THEN <<Head(base)>> \o url
  ELSE SubSeq(base, 1, LastSlash(base)) \o url

\* ------------------------------------------------------- pagination resolver
Sentinel == <<"javascript:void(0);">>

IsNextLink(a) == a.id = "pt_next" /\ "Readpage_up" \in Range(a.classes)

\* soup.find('a', id='pt_next', class_='Readpage_up'): index of the first
\* match, 0 if none
FindNextLink(anchors) ==
  IF \E i \in 1..Len(anchors) : IsNextLink(anchors[i])
  THEN CHOOSE i \in 1..Len(anchors) :
         IsNextLink(anchors[i]) /\ \A j \in 1..(i - 1) : ~IsNextLink(anchors[j])
  ELSE 0

\* ResolveNextUrl comparing the href with the sentinel without lower()
ResolveNextUrl_CaseSensitive(doc, cur) ==
  LET k == FindNextLink(doc.anchors)
      next_page_link_tag == doc.anchors[k]
      raw_href == IF next_page_link_tag.hasHref THEN next_page_link_tag.href ELSE None
      next_href == Strip(raw_href)
      new_url == urljoin(cur, next_href)
  IN  IF k = 0 THEN [url |-> None, why |-> "no_link"]
      ELSE IF raw_href = None \/ raw_href = EmptyStr \/ Strip(raw_href) = EmptyStr
           THEN [url |-> None, why |-> "no_href"]
      ELSE IF next_href = Sentinel THEN [url |-> None, why |-> "sentinel"]
      ELSE IF new_url = cur THEN [url |-> None, why |-> "same_url"]
      ELSE [url |-> new_url, why |-> "next"]

\* ResolveNextUrl without the comparison of the new URL with the current one
ResolveNextUrl_NoLoopGuard(doc, cur) ==
  LET k == FindNextLink(doc.anchors)
      next_page_link_tag == doc.anchors[k]
      raw_href == IF next_page_link_tag.hasHref THEN next_page_link_tag.href ELSE None
      next_href == Strip(raw_href)
      new_url == urljoin(cur, next_href)
  IN  IF k = 0 THEN [url |-> None, why |-> "no_link"]
      ELSE IF raw_href = None \/ raw_href = EmptyStr \/ Strip(raw_href) = EmptyStr
           THEN [url |-> None, why |-> "no_href"]
      ELSE IF Lower(next_href) = Sentinel THEN [url |-> None, why |-> "sentinel"]
      ELSE [url |-> new_url, why |-> "next"]

\* ResolveNextUrl joining the href as read, "next_href = next_href.strip()" left out
ResolveNextUrl_NoStrip(doc, cur) ==
  LET k == FindNextLink(doc.anchors)
      next_page_link_tag == doc.anchors[k]
      raw_href == IF next_page_link_tag.hasHref THEN next_page_link_tag.href ELSE None
      new_url == urljoin(cur, raw_href)
  IN  IF k = 0 THEN [url |-> None, why |-> "no_link"]
      ELSE IF raw_href = None \/ raw_href = EmptyStr \/ Strip(raw_href) = EmptyStr
           THEN [url |-> None, why |-> "no_href"]
      ELSE IF Lower(Strip(raw_href)) = Sentinel THEN [url |-> None, why |-> "sentinel"]
      ELSE IF new_url = cur THEN [url |-> None, why |-> "same_url"]
      ELSE [url |-> new_url, why |-> "next"]

\* lines 144-172: the new value of current_url and the branch that chose it
ResolveNextUrl(doc, cur) ==
  LET k == FindNextLink(doc.anchors)
      next_page_link_tag == doc.anchors[k]
      raw_href == IF next_page_link_tag.hasHref THEN next_page_link_tag.href ELSE None
      next_href == Strip(raw_href)
      new_url == urljoin(cur, next_href)
  IN  IF k = 0 THEN [url |-> None, why |-> "no_link"]
      ELSE IF raw_href = None \/ raw_href = EmptyStr \/ Strip(raw_href) = EmptyStr
           THEN [url |-> None, why |-> "no_href"]
      ELSE IF Lower(next_href) = Sentinel THEN [url |-> None, why |-> "sentinel"]
      ELSE IF new_url = cur THEN [url |-> None, why |-> "same_url"]
      ELSE [url |-> new_url, why |-> "next"]

\* ------------------------------------------------------------------- writer
Sep == <<"\n", "\n">>
Txt == <<".", "t", "x", "t">>

\* WriteParagraphs with the test "i < len(paragraphs)": a separator after
\* every paragraph, the last one included
RECURSIVE WriteParagraphs_TrailingSep(_, _)
WriteParagraphs_TrailingSep(ps, i) ==
  IF i > Len(ps) THEN <<>>
  ELSE ps[i] \o Sep \o WriteParagraphs_TrailingSep(ps, i + 1)

\* lines 127-130: what the enumerate loop writes from index i on (1-based)
RECURSIVE WriteParagraphs(_, _)
WriteParagraphs(ps, i) ==
  IF i > Len(ps) THEN <<>>
  ELSE ps[i] \o (IF i < Len(ps) THEN Sep ELSE <<>>) \o WriteParagraphs(ps, i + 1)

\* PageData without the separator between pages
PageData_NoPageSeparator(mode, ps) == WriteParagraphs(ps, 1)

\* PageData with the page separator written after the paragraphs
PageData_SeparatorAfter(mode, ps) ==
  WriteParagraphs(ps, 1) \o (IF mode = "a" /\ ps # <<>> THEN Sep ELSE <<>>)

\* lines 124-130: everything one page writes to the open file
PageData(mode, ps) ==
  (IF mode = "a" /\ ps # <<>> THEN Sep ELSE <<>>) \o WriteParagraphs(ps, 1)

\* the file system maps the names of the existing files to their content
Exists(files, name) == name \in DOMAIN files
Content(files, name) == IF Exists(files, name) THEN files[name] ELSE <<>>

\* open(name, mode): 'w' creates or truncates, 'a' creates or keeps
Opened(files, name, mode) ==
  [n \in DOMAIN files \cup {name} |->
     IF n = name THEN (IF mode = "w" THEN <<>> ELSE Content(files, name)) ELSE files[n]]

\* the file system after a prefix of data reached the opened file
Written(files, name, mode, data) ==
  LET o == Opened(files, name, mode)
  IN  [o EXCEPT ![name] = @ \o data]

Prefixes(s) == {SubSeq(s, 1, n) : n \in 0..Len(s)}

\* ------------------------------------------------------------ the web site
U1 == <<SchemeHost, "/", "a", "/", "1">>
U2 == <<SchemeHost, "/", "b", "/", "2">>
Urls == {U1, U2}

Span(classes, strings) == [classes |-> classes, strings |-> strings]
P(hasClass, parents, strings) == [hasClass |-> hasClass, parents |-> parents, strings |-> strings]
A(id, classes, hasHref, href) == [id |-> id, classes |-> classes, hasHref |-> hasHref, href |-> href]

SpanDecoy == Span(<<"sub">>, << <<"X", NBSP, NBSP, "Y">> >>)
SpanMT == Span(<<"title">>, << <<"C", NBSP, NBSP, "M", " ", "T">> >>)
SpanN == Span(<<"big", "title">>, << <<"C">>, <<NBSP, NBSP, " ">>, <<"N", "?">> >>)
SpanNoSep == Span(<<"title">>, << <<"C", NBSP, "M">> >>)

PA == P(FALSE, <<"div", "body">>, << <<" ", "x", " ">>, <<"y">> >>)
PB == P(FALSE, <<"body">>, << <<"z">> >>)
PClass == P(TRUE, <<"body">>, << <<"q">> >>)
PNav == P(FALSE, <<"div", "nav", "body">>, << <<"r">> >>)
PBlank == P(FALSE, <<"body">>, << <<" ", NBSP>>, <<"\n">> >>)

\* the title and body of a page: (spans, ps)
Bodies ==
  { << <<SpanDecoy, SpanMT>>, <<PClass, PA, PNav, PB, PBlank>> >>,
    << <<SpanN>>, <<PA>> >>,
    << <<>>, <<PClass, PNav, PBlank>> >>,
    << <<SpanNoSep>>, <<PB, PA, PB>> >> }

NextLink(href) == A("pt_next", <<"Readpage_up">>, TRUE, href)

\* the anchors of a page
Navs ==
  { <<>>,
    << A("pt_prev", <<"Readpage_up">>, TRUE, U2), A("pt_next", <<"Readpage_down">>, TRUE, U2) >>,
    << A("pt_next", <<"Readpage_up">>, FALSE, EmptyStr) >>,
    << NextLink(EmptyStr) >>,
    << NextLink(<<" ", "\t">>) >>,
    << NextLink(Sentinel) >>,
    << NextLink(<<" ", "JavaScript:Void(0);", "\n">>) >>,
    << NextLink(<<" ", "2", " ">>) >>,
    << NextLink(<<"1">>) >>,
    << NextLink(U1) >>,
    << NextLink(<<"\n", "/", "b", "/", "2">>) >>,
    << A("pt_prev", <<"Readpage_up">>, TRUE, U1), A("pt_next", <<"btn", "Readpage_up">>, TRUE, U2), NextLink(U1) >> }

Pages == {[spans |-> b[1], ps |-> b[2], anchors |-> n] : b \in Bodies, n \in Navs}

\* content of a file left over from before the run
Stale == <<"o", "l", "d">>
StaleNames == {extract_title_for_filename(pg) \o Txt : pg \in Pages}
InitialFiles == { [n \in {} |-> <<>>], [n \in StaleNames |-> Stale] }

\* ------------------------------------------------------------------- state
VARIABLES
  web,                   \* the site: the document served at each URL
  fs,                    \* the files of the working directory
  fs0,                   \* the files before the run
  initial_url,           \* argument of crawl_and_save_all_pages
  current_url,           \* the cursor, None when the crawl is over
  output_filename,       \* None until the first page is fetched
  first_page_processed,
  file_mode,             \* "w" or "a", None before the first page
  soup,                  \* the parsed document of the current page, None if absent
  paragraphs,            \* result of the paragraph extractor for the current page
  pc,                    \* position in the loop
  log,                   \* history: the operations performed so far
  summary,               \* the final message, None until it is printed
  call,                  \* a direct call of one of the helper functions, None if absent
  result                 \* the value that call returned, None before it returns

vars == <<web, fs, fs0, initial_url, current_url, output_filename,
          first_page_processed, file_mode, soup, paragraphs, pc, log, summary,
          call, result>>

Ev(op, arg, res) == [op |-> op, arg |-> arg, res |-> res]
OpsOf(op) == SelectSeq(log, LAMBDA e : e.op = op)
Fetched == [i \in 1..Len(OpsOf("fetch")) |-> OpsOf("fetch")[i].arg]

\* while current_url: the loop is entered again, or left
LoopHead(url) == IF url # None /\ url # EmptyStr THEN "FETCHING" ELSE "TERMINATED"

Init ==
  /\ web \in [Urls -> Pages]
  /\ fs0 \in InitialFiles
  /\ fs = fs0
  /\ initial_url \in {U1, EmptyStr}
  /\ current_url = initial_url
  /\ output_filename = None
  /\ first_page_processed = FALSE
  /\ file_mode = None
  /\ soup = None
  /\ paragraphs = <<>>
  /\ pc = LoopHead(initial_url)
  /\ log = <<>>
  /\ summary = None
  /\ call = None
  /\ result = None

FetchErrors == {"Timeout", "RequestException", "Exception"}

\* Fetch with "current_url = None" forgotten in the handlers: the loop head is
\* reached with the same cursor and the request is issued again
Fetch_Retry ==
  /\ pc = "FETCHING"
  /\ UNCHANGED <<call, result>>
  /\ Len(OpsOf("fetch")) < MaxFetches
  /\ \/ /\ current_url \in DOMAIN web
        /\ soup' = web[current_url]
        /\ log' = Append(log, Ev("fetch", current_url, "ok"))
        /\ pc' = "NAMING"
        /\ UNCHANGED current_url
     \/ /\ \E err \in FetchErrors :
             /\ (current_url \notin DOMAIN web => err = "RequestException")
             /\ log' = Append(log, Ev("fetch", current_url, err))
        /\ pc' = LoopHead(current_url)
        /\ UNCHANGED <<soup, current_url>>
  /\ UNCHANGED <<web, fs, fs0, initial_url, output_filename, first_page_processed,
                 file_mode, paragraphs, summary>>

\* lines 87-108: one GET and the parse; a URL the site does not serve is an
\* HTTP error, and any request or parse may fail
Fetch ==
  /\ pc = "FETCHING"
  /\ UNCHANGED <<call, result>>
  /\ Len(OpsOf("fetch")) < MaxFetches
  /\ \/ /\ current_url \in DOMAIN web
        /\ soup' = web[current_url]
        /\ log' = Append(log, Ev("fetch", current_url, "ok"))
        /\ pc' = "NAMING"
        /\ UNCHANGED current_url
     \/ /\ \E err \in FetchErrors :
             /\ (current_url \notin DOMAIN web => err = "RequestException")
             /\ log' = Append(log, Ev("fetch", current_url, err))
        /\ current_url' = None
        /\ pc' = LoopHead(None)
        /\ UNCHANGED soup
  /\ UNCHANGED <<web, fs, fs0, initial_url, output_filename, first_page_processed,
                 file_mode, paragraphs, summary>>

\* SelectOutputFile handing the page to the writer before it is extracted
SelectOutputFile_SkipExtract ==
  /\ pc = "NAMING"
  /\ UNCHANGED <<call, result>>
  /\ IF ~first_page_processed
     THEN /\ output_filename' = extract_title_for_filename(soup) \o Txt
          /\ file_mode' = "w"
          /\ first_page_processed' = TRUE
          /\ log' = Append(log, Ev("title", extract_title_for_filename(soup) \o Txt, "w"))
     ELSE /\ file_mode' = "a"
          /\ UNCHANGED <<output_filename, first_page_processed, log>>
  /\ pc' = "WRITING"
  /\ UNCHANGED <<web, fs, fs0, initial_url, current_url, soup, paragraphs, summary>>

\* SelectOutputFile with the title extractor called on every page
SelectOutputFile_EveryPage ==
  /\ pc = "NAMING"
  /\ UNCHANGED <<call, result>>
  /\ output_filename' = extract_title_for_filename(soup) \o Txt
  /\ log' = Append(log, Ev("title", extract_title_for_filename(soup) \o Txt, "w"))
  /\ IF ~first_page_processed
     THEN /\ file_mode' = "w"
          /\ first_page_processed' = TRUE
     ELSE /\ file_mode' = "a"
          /\ UNCHANGED first_page_processed
  /\ pc' = "EXTRACTING"
  /\ UNCHANGED <<web, fs, fs0, initial_url, current_url, soup, paragraphs, summary>>

\* lines 110-117: the first page fixes the file name and the mode
SelectOutputFile ==
  /\ pc = "NAMING"
  /\ UNCHANGED <<call, result>>
  /\ IF ~first_page_processed
     THEN /\ output_filename' = extract_title_for_filename(soup) \o Txt
          /\ file_mode' = "w"
          /\ first_page_processed' = TRUE
          /\ log' = Append(log, Ev("title", extract_title_for_filename(soup) \o Txt, "w"))
     ELSE /\ file_mode' = "a"
          /\ UNCHANGED <<output_filename, first_page_processed, log>>
  /\ pc' = "EXTRACTING"
  /\ UNCHANGED <<web, fs, fs0, initial_url, current_url, soup, paragraphs, summary>>

\* line 119
Extract ==
  /\ pc = "EXTRACTING"
  /\ UNCHANGED <<call, result>>
  /\ paragraphs' = extract_relevant_paragraphs(soup)
  /\ log' = Append(log, Ev("extract", current_url, "ok"))
  /\ pc' = "WRITING"
  /\ UNCHANGED <<web, fs, fs0, initial_url, current_url, output_filename,
                 first_page_processed, file_mode, soup, summary>>

\* Write with the test "if paragraphs:", the first page not forced
Write_OnlyIfParagraphs ==
  /\ pc = "WRITING"
  /\ UNCHANGED <<call, result>>
  /\ IF paragraphs # <<>>
     THEN \/ /\ fs' = Written(fs, output_filename, file_mode, PageData(file_mode, paragraphs))
             /\ log' = Append(log, Ev("write", output_filename, file_mode))
             /\ pc' = "RESOLVING_NEXT"
             /\ UNCHANGED current_url
          \/ /\ \/ fs' = fs
                \/ \E d \in Prefixes(PageData(file_mode, paragraphs)) :
                     fs' = Written(fs, output_filename, file_mode, d)
             /\ log' = Append(log, Ev("write_failed", output_filename, file_mode))
             /\ current_url' = None
             /\ pc' = LoopHead(None)
     ELSE /\ pc' = "RESOLVING_NEXT"
          /\ UNCHANGED <<fs, log, current_url>>
  /\ UNCHANGED <<web, fs0, initial_url, output_filename, first_page_processed,
                 file_mode, soup, paragraphs, summary>>

\* Write with the IOError handler reporting the error but going on
Write_IgnoreError ==
  /\ pc = "WRITING"
  /\ UNCHANGED <<call, result>>
  /\ IF paragraphs # <<>> \/ file_mode = "w"
     THEN \/ /\ fs' = Written(fs, output_filename, file_mode, PageData(file_mode, paragraphs))
             /\ log' = Append(log, Ev("write", output_filename, file_mode))
          \/ /\ \/ fs' = fs
                \/ \E d \in Prefixes(PageData(file_mode, paragraphs)) :
                     fs' = Written(fs, output_filename, file_mode, d)
             /\ log' = Append(log, Ev("write_failed", output_filename, file_mode))
     ELSE UNCHANGED <<fs, log>>
  /\ pc' = "RESOLVING_NEXT"
  /\ UNCHANGED <<web, fs0, initial_url, current_url, output_filename,
                 first_page_processed, file_mode, soup, paragraphs, summary>>

\* lines 121-142: open, write and close; an IOError may come from open (the
\* file system is untouched) or later (a prefix of the data reached the file)
Write ==
  /\ pc = "WRITING"
  /\ UNCHANGED <<call, result>>
  /\ IF paragraphs # <<>> \/ file_mode = "w"
     THEN \/ /\ fs' = Written(fs, output_filename, file_mode, PageData(file_mode, paragraphs))
             /\ log' = Append(log, Ev("write", output_filename, file_mode))
             /\ pc' = "RESOLVING_NEXT"
             /\ UNCHANGED current_url
          \/ /\ \/ fs' = fs
                \/ \E d \in Prefixes(PageData(file_mode, paragraphs)) :
                     fs' = Written(fs, output_filename, file_mode, d)
             /\ log' = Append(log, Ev("write_failed", output_filename, file_mode))
             /\ current_url' = None
             /\ pc' = LoopHead(None)
     ELSE /\ pc' = "RESOLVING_NEXT"
          /\ UNCHANGED <<fs, log, current_url>>
  /\ UNCHANGED <<web, fs0, initial_url, output_filename, first_page_processed,
                 file_mode, soup, paragraphs, summary>>

\* ResolveNext keeping a visited set: a link back to a fetched page ends the crawl
ResolveNext_VisitedSet ==
  /\ pc = "RESOLVING_NEXT"
  /\ UNCHANGED <<call, result>>
  /\ LET r == ResolveNextUrl(soup, current_url)
         seen == r.url # None /\ \E i \in 1..Len(Fetched) : Fetched[i] = r.url
         url == IF seen THEN None ELSE r.url
     IN  /\ current_url' = url
         /\ log' = Append(log, Ev("resolve", url, IF seen THEN "same_url" ELSE r.why))
         /\ pc' = IF url # None THEN "DELAYING" ELSE LoopHead(None)
  /\ UNCHANGED <<web, fs, fs0, initial_url, output_filename, first_page_processed,
                 file_mode, soup, paragraphs, summary>>

\* lines 144-172
ResolveNext ==
  /\ pc = "RESOLVING_NEXT"
  /\ UNCHANGED <<call, result>>
  /\ LET r == ResolveNextUrl(soup, current_url)
     IN  /\ current_url' = r.url
         /\ log' = Append(log, Ev("resolve", r.url, r.why))
         /\ pc' = IF r.url # None THEN "DELAYING" ELSE LoopHead(None)
  /\ UNCHANGED <<web, fs, fs0, initial_url, output_filename, first_page_processed,
                 file_mode, soup, paragraphs, summary>>

\* lines 174-176: time.sleep(1), then back to the loop head
Delay ==
  /\ pc = "DELAYING"
  /\ UNCHANGED <<call, result>>
  /\ pc' = LoopHead(current_url)
  /\ UNCHANGED <<web, fs, fs0, initial_url, current_url, output_filename,
                 first_page_processed, file_mode, soup, paragraphs, log, summary>>

\* lines 178-183: the final message
Finish ==
  /\ pc = "TERMINATED"
  /\ UNCHANGED <<call, result>>
  /\ summary' = IF output_filename # None THEN output_filename
                ELSE IF initial_url # EmptyStr THEN <<"no file created">>
                ELSE <<"not started">>
  /\ pc' = "EXITED"
  /\ UNCHANGED <<web, fs, fs0, initial_url, current_url, output_filename,
                 first_page_processed, file_mode, soup, paragraphs, log>>

Next ==
  \/ Fetch
  \/ SelectOutputFile
  \/ Extract
  \/ Write
  \/ ResolveNext
  \/ Delay
  \/ Finish

Spec == Init /\ [][Next]_vars

\* the runs followed to their end: a site of pages with one paragraph or none
\* under every navigation, in a directory without a file of the name
ChainPages == {pg \in Pages : Len(extract_relevant_paragraphs(pg)) <= 1}
InitChain ==
  /\ web \in [Urls -> ChainPages]
  /\ fs0 = [n \in {} |-> <<>>]
  /\ Init

\* the loop is sequential and every statement of it returns (requests.get has
\* timeout=15, time.sleep(1) ends): a step that can be taken is taken
FairSpec == InitChain /\ [][Next]_vars /\ WF_vars(Next)

TypeOK ==
  /\ pc \in {"FETCHING", "NAMING", "EXTRACTING", "WRITING", "RESOLVING_NEXT",
             "DELAYING", "TERMINATED", "EXITED"}
  /\ first_page_processed \in BOOLEAN
  /\ (output_filename = None) = ~first_page_processed
  /\ Len(OpsOf("fetch")) <= MaxFetches

\* ------------------------------------------------------- reading the history
Last(s) == s[Len(s)]
OkFetches == SelectSeq(log, LAMBDA e : e.op = "fetch" /\ e.res = "ok")
FailedFetch(e) == e.op = "fetch" /\ e.res # "ok"
\* every open() of the run, successful or not
Opens == SelectSeq(log, LAMBDA e : e.op \in {"write", "write_failed"})
NoFailure == \A i \in 1..Len(log) : ~FailedFetch(log[i]) /\ log[i].op # "write_failed"
RunOver == pc \in {"TERMINATED", "EXITED"}

\* paragraphs joined by the two-newline sequence, none after the last
RECURSIVE JoinParagraphs(_)
JoinParagraphs(ps) ==
  IF ps = <<>> THEN <<>>
  ELSE IF Len(ps) = 1 THEN ps[1]
  ELSE ps[1] \o Sep \o JoinParagraphs(Tail(ps))

\* the pagination link of a document as section 4.4 describes it: the first
\* anchor with id pt_next whose class list includes Readpage_up
LinkIndex(doc) ==
  LET hits == {i \in 1..Len(doc.anchors) :
                 /\ doc.anchors[i].id = "pt_next"
                 /\ \E j \in 1..Len(doc.anchors[i].classes) :
                      doc.anchors[i].classes[j] = "Readpage_up"}
  IN  IF hits = {} THEN 0 ELSE CHOOSE i \in hits : \A j \in hits : i <= j

\* its href, None when the link or the attribute is missing
RawHref(doc) ==
  IF LinkIndex(doc) = 0 THEN None
  ELSE IF ~doc.anchors[LinkIndex(doc)].hasHref THEN None
  ELSE doc.anchors[LinkIndex(doc)].href

\* no link, no href, a blank href, or the end-of-series marker in any case
EndOfSeries(doc) ==
  \/ RawHref(doc) = None
  \/ Strip(RawHref(doc)) = EmptyStr
  \/ Lower(Strip(RawHref(doc))) = Sentinel

\* the trimmed href resolved against the URL of the page
Resolved(doc, cur) == urljoin(cur, Strip(RawHref(doc)))

\* ------------------------------------------------------------------ claims

\* C1: the output file name is fixed once, from the title of the first
\* successfully fetched page, and never changes; the first open of the run is
\* the only one in truncate mode, every later open appends to that same file,
\* and no other file of the directory is touched.
C1_FileIdentityFixed ==
  [][ /\ (output_filename # None => output_filename' = output_filename)
      /\ (output_filename' # None =>
            /\ OkFetches' # <<>>
            /\ output_filename' = extract_title_for_filename(web[OkFetches'[1].arg]) \o Txt)
      /\ \A i \in 1..Len(Opens') :
            /\ Opens'[i].arg = output_filename'
            /\ (Opens'[i].res = "w") = (i = 1)
      /\ \A n \in DOMAIN fs' :
            n # output_filename' => (n \in DOMAIN fs0 /\ fs'[n] = fs0[n])
      /\ (Opens # <<>> /\ fs' # fs =>
            IsPrefix(Content(fs, output_filename), Content(fs', output_filename)))
    ]_vars

\* two pages carrying different titles were both written
C1_Witness ==
  /\ Len(OpsOf("write")) >= 2
  /\ Len(OkFetches) >= 2
  /\ extract_title_for_filename(web[OkFetches[2].arg])
       # extract_title_for_filename(web[OkFetches[1].arg])
  /\ Content(fs, output_filename) # <<>>

\* C2: a failed fetch or parse ends the crawl at once: nothing is run after
\* it (no title, extraction, write, resolution or fetch), the files are what
\* they were before the request, and when the failing page is the initial URL
\* no file name is chosen and no file is created.
C2_FetchFailureTerminates ==
  [][ /\ (pc = "FETCHING" /\ log' # log /\ FailedFetch(Last(log')) =>
            /\ pc' = "TERMINATED"
            /\ current_url' = None
            /\ fs' = fs
            /\ (OkFetches = <<>> => fs' = fs0 /\ output_filename' = None))
      /\ \A i \in 1..Len(log') : FailedFetch(log'[i]) => i = Len(log')
      /\ (log # <<>> /\ FailedFetch(Last(log)) => fs' = fs /\ log' = log)
    ]_vars

\* the fetch of a later page failed after earlier pages had been written
C2_Witness ==
  /\ log # <<>>
  /\ FailedFetch(Last(log))
  /\ OkFetches # <<>>
  /\ Content(fs, output_filename) # <<>>
  /\ pc = "EXITED"

\* C3: an I/O failure while writing ends the crawl: the resolver is not run
\* for that page, nothing is fetched afterwards, and what earlier pages of
\* the run wrote is still at the start of the file.
C3_WriteFailureTerminates ==
  [][ /\ (pc = "WRITING" /\ log' # log /\ Last(log').op = "write_failed" =>
            /\ pc' = "TERMINATED"
            /\ current_url' = None
            /\ (OpsOf("write") # <<>> =>
                  /\ Exists(fs', output_filename)
                  /\ IsPrefix(Content(fs, output_filename), Content(fs', output_filename))))
      /\ \A i \in 1..Len(log') : log'[i].op = "write_failed" => i = Len(log')
      /\ (log # <<>> /\ Last(log).op = "write_failed" => fs' = fs /\ log' = log)
    ]_vars

\* the write of a later page failed part-way after earlier pages had been written
C3_Witness ==
  /\ log # <<>>
  /\ Last(log).op = "write_failed"
  /\ OpsOf("write") # <<>>
  /\ Len(Content(fs, output_filename)) > Len(JoinParagraphs(extract_relevant_paragraphs(web[OkFetches[1].arg])))
  /\ pc = "EXITED"

\* the site is a two-page series: the start page links to another served
\* page, whose link carries the end-of-series marker
TwoPageSeries ==
  /\ initial_url \in DOMAIN web
  /\ ~EndOfSeries(web[initial_url])
  /\ Resolved(web[initial_url], initial_url) \in (DOMAIN web) \ {initial_url}
  /\ LET u2 == Resolved(web[initial_url], initial_url)
     IN  /\ RawHref(web[u2]) # None
         /\ Lower(Strip(RawHref(web[u2]))) = Sentinel

Page1Paragraphs == extract_relevant_paragraphs(web[initial_url])
Page2Paragraphs == extract_relevant_paragraphs(web[Resolved(web[initial_url], initial_url)])

\* C4 as stated: after a two-page series fetched and written without failure,
\* two fetches occurred and the file is page 1's paragraphs, a two-newline
\* separator, then page 2's paragraphs.
C4_Original ==
  (TwoPageSeries /\ RunOver /\ NoFailure) =>
     /\ Len(Fetched) = 2
     /\ Content(fs, output_filename)
          = JoinParagraphs(Page1Paragraphs) \o Sep \o JoinParagraphs(Page2Paragraphs)

\* C4 amended: after a two-page series fetched and written without failure,
\* two fetches occurred and the file is page 1's paragraphs followed, only when
\* page 2 has a paragraph, by a two-newline separator and page 2's paragraphs.
C4_TwoPageSeries ==
  (TwoPageSeries /\ RunOver /\ NoFailure) =>
     /\ Len(Fetched) = 2
     /\ Fetched[2] = Resolved(web[initial_url], initial_url)
     /\ Exists(fs, output_filename)
     /\ Content(fs, output_filename)
          = JoinParagraphs(Page1Paragraphs)
              \o (IF Page2Paragraphs # <<>>
                  THEN Sep \o JoinParagraphs(Page2Paragraphs) ELSE <<>>)

\* a two-page series ended with both pages contributing paragraphs
C4_Witness ==
  /\ TwoPageSeries
  /\ RunOver
  /\ NoFailure
  /\ Page1Paragraphs # <<>>
  /\ Page2Paragraphs # <<>>

\* C5: when the page at the resolver has no pagination link, or the link has
\* no href or a blank one, or the trimmed href is the end-of-series marker in
\* any case, the crawl terminates and nothing more is fetched; a site whose
\* start page has no pagination link ends after one fetch with that page's
\* paragraphs as the file.
C5_EndOfSeriesTerminates ==
  [][ /\ (pc = "RESOLVING_NEXT" /\ EndOfSeries(soup) =>
            /\ pc' = "TERMINATED"
            /\ current_url' = None
            /\ Fetched' = Fetched)
      /\ (RunOver => Fetched' = Fetched /\ RunOver')
      /\ (/\ RunOver'
          /\ NoFailure'
          /\ initial_url \in DOMAIN web
          /\ LinkIndex(web[initial_url]) = 0
          => /\ Len(Fetched') = 1
             /\ Exists(fs', output_filename')
             /\ fs'[output_filename'] = JoinParagraphs(Page1Paragraphs))
    ]_vars

\* the crawl ended on a marker that needed trimming and case folding
C5_Witness ==
  /\ log # <<>>
  /\ Last(log).op = "resolve"
  /\ Last(log).res = "sentinel"
  /\ RawHref(soup) # Sentinel
  /\ pc = "TERMINATED"

\* C6: when the link of the current page resolves to the current URL itself
\* the crawl terminates instead of fetching it, and no two consecutive
\* fetches of a run target the same URL.
C6_NoSelfLoop ==
  [][ /\ (pc = "RESOLVING_NEXT" /\ RawHref(soup) # None
            /\ Resolved(soup, current_url) = current_url =>
            /\ pc' = "TERMINATED"
            /\ current_url' = None
            /\ Fetched' = Fetched)
      /\ \A i \in 1..(Len(Fetched') - 1) : Fetched'[i] # Fetched'[i + 1]
    ]_vars

\* the second page of a run linked to itself by a relative href
C6_Witness ==
  /\ log # <<>>
  /\ Last(log).op = "resolve"
  /\ Last(log).res = "same_url"
  /\ Len(Fetched) = 2
  /\ Strip(RawHref(soup)) # Fetched[2]
  /\ pc = "TERMINATED"

\* C7: when no termination condition applies, the cursor becomes the trimmed
\* href resolved against the URL of the page just processed and the crawl
\* goes on; the first fetch is for the start URL and every later fetch is for
\* the resolution of the previous fetched page's link.
C7_CursorFollowsLink ==
  [][ /\ (pc = "RESOLVING_NEXT" /\ ~EndOfSeries(soup)
            /\ Resolved(soup, current_url) # current_url =>
            /\ current_url = Last(Fetched)
            /\ soup = web[current_url]
            /\ current_url' = Resolved(soup, current_url)
            /\ pc' = "DELAYING")
      /\ (Fetched' # <<>> => Fetched'[1] = initial_url)
      /\ \A i \in 2..Len(Fetched') :
            /\ Fetched'[i - 1] \in DOMAIN web
            /\ Fetched'[i] = Resolved(web[Fetched'[i - 1]], Fetched'[i - 1])
    ]_vars

\* three fetches, the first link needing a trim and the second a relative one
C7_Witness ==
  /\ Len(Fetched) = 3
  /\ Fetched[3] \notin {Fetched[1], Fetched[2]}
  /\ RawHref(web[Fetched[1]]) # Strip(RawHref(web[Fetched[1]]))
  /\ Head(RawHref(web[Fetched[2]])) # SchemeHost

C9_LaterPages ==
  [][ (pc = "WRITING" /\ Len(OkFetches) >= 2) =>
        IF paragraphs = <<>>
        THEN /\ fs' = fs
             /\ log' = log
             /\ current_url' = current_url
             /\ pc' = "RESOLVING_NEXT"
        ELSE /\ log' # log
             /\ (pc' = "RESOLVING_NEXT" =>
                   /\ Last(log').op = "write"
                   /\ Content(fs', output_filename)
                        = Content(fs, output_filename) \o Sep \o JoinParagraphs(paragraphs))
             /\ (pc' # "RESOLVING_NEXT" => Last(log').op = "write_failed")
    ]_vars

\* a third page without paragraphs came after a second page that appended some
C9_Witness ==
  /\ Len(OkFetches) = 3
  /\ pc = "RESOLVING_NEXT"
  /\ paragraphs = <<>>
  /\ Len(Opens) = 2
  /\ Opens[2].op = "write"
  /\ Opens[2].res = "a"

\* where paragraph i starts in the text one page writes
RECURSIVE Offset(_, _)
Offset(ps, i) == IF i <= 1 THEN 0 ELSE Offset(ps, i - 1) + Len(ps[i - 1]) + Len(Sep)

\* C10: in the text a page writes, the paragraphs stand in extraction order,
\* each pair of neighbours is separated by exactly one two-newline sequence,
\* and nothing follows the last paragraph.
C10_ParagraphLayout ==
  [][ (pc = "WRITING" /\ pc' = "RESOLVING_NEXT" /\ log' # log) =>
        LET new == Content(fs', output_filename)
            n == Len(paragraphs)
            total == IF n = 0 THEN 0 ELSE Offset(paragraphs, n) + Len(paragraphs[n])
            start == Len(new) - total
            kept == IF Len(OkFetches) = 1 THEN 0 ELSE Len(Content(fs, output_filename))
            lead == IF Len(OkFetches) >= 2 /\ n > 0 THEN Len(Sep) ELSE 0
        IN  /\ start = kept + lead
            /\ \A i \in 1..n :
                 SubSeq(new, start + Offset(paragraphs, i) + 1,
                        start + Offset(paragraphs, i) + Len(paragraphs[i])) = paragraphs[i]
            /\ \A i \in 1..(n - 1) :
                 SubSeq(new, start + Offset(paragraphs, i) + Len(paragraphs[i]) + 1,
                        start + Offset(paragraphs, i + 1)) = Sep
    ]_vars

\* a page with three paragraphs has just been written
C10_Witness ==
  /\ log # <<>>
  /\ Last(log).op = "write"
  /\ Len(paragraphs) = 3
  /\ pc = "RESOLVING_NEXT"

\* the operations that may directly follow operation i of the history
FollowsInOrder(i) ==
  LET e == log[i]
      f == log[i + 1]
  IN  CASE e.op = "fetch" ->
             /\ e.res = "ok"
             /\ IF Len(SelectSeq(SubSeq(log, 1, i), LAMBDA x : x.op = "fetch" /\ x.res = "ok")) = 1
                THEN f.op = "title" ELSE f.op = "extract" /\ f.arg = e.arg
        [] e.op = "title" -> f.op = "extract"
        [] e.op = "extract" ->
             \/ f.op \in {"write", "write_failed"}
             \/ /\ f.op = "resolve"
                /\ extract_relevant_paragraphs(web[e.arg]) = <<>>
                /\ \E j \in 1..(i - 1) : log[j].op = "resolve"
        [] e.op = "write" -> f.op = "resolve"
        [] e.op = "resolve" -> e.res = "next" /\ f.op = "fetch" /\ f.arg = e.arg
        [] OTHER -> FALSE

\* C11: the crawl is sequential: the history starts with a fetch and within
\* each page runs fetch, (title on the first page), extract, write (when there
\* is one), resolve; a fetch is issued only at the start or right after the
\* resolution of the previous page's link.
C11_Sequential ==
  /\ (log # <<>> => log[1].op = "fetch")
  /\ \A i \in 1..(Len(log) - 1) : FollowsInOrder(i)
  /\ (pc = "FETCHING" => log = <<>> \/ (Last(log).op = "resolve" /\ Last(log).res = "next"))
  /\ (pc = "EXTRACTING" => Last(log).op \in {"fetch", "title"})
  /\ (pc = "WRITING" => Last(log).op = "extract")
  /\ (pc = "RESOLVING_NEXT" => Last(log).op \in {"write", "extract"})

\* two pages have gone through fetch, extract, write and resolve
C11_Witness ==
  /\ Len(OkFetches) = 2
  /\ Len(OpsOf("extract")) = 2
  /\ Len(OpsOf("write")) = 2
  /\ Len(OpsOf("resolve")) = 2

\* C12 as stated: the final message names the output file exactly when the
\* run created one, and otherwise says that no file was created.
C12_SummaryMatchesFile ==
  pc = "EXITED" =>
    IF output_filename # None /\ Exists(fs, output_filename) /\ fs # fs0
    THEN summary = output_filename
    ELSE summary \in {<<"no file created">>, <<"not started">>}

\* ------------------------------------------- the helper functions on their own
Rep(c, n) == [i \in 1..n |-> c]
StringsOver(chars) == UNION {[1..n -> chars] : n \in 0..MaxStrLen}

\* arguments of sanitize_filename: every short string over a few characters,
\* spellings of "untitled", and strings around the length limit
SanitizeInputs ==
  StringsOver({" ", NBSP, ".", "/", "a"})
    \cup { None,
           Untitled,
           <<"U", "n", "T", "i", "t", "L", "e", "d">>,
           <<" ", "U", "N", "T", "I", "T", "L", "E", "D", "\n">>,
           <<"u", "n", "/", "t", "i", "t", "l", "e", "d">>,
           <<"u", "n", "t", "i", "t", "l", "e", "d", ".">>,
           Rep("a", MaxNameLen),
           Rep("a", MaxNameLen + 1),
           Rep("a", MaxNameLen - 1) \o <<" ", NBSP, "b", "c">>,
           Rep("/", MaxNameLen + 1) \o <<"a">>,
           <<"\t">> \o Rep(".", MaxNameLen + 50) \o <<":">> }

Doc(spans, ps, anchors) == [spans |-> spans, ps |-> ps, anchors |-> anchors]

\* the title of section 8: "Chapter", two non-breaking spaces, "My Title"
ExampleTitle ==
  <<"C", "h", "a", "p", "t", "e", "r", NBSP, NBSP, "M", "y", " ", "T", "i", "t", "l", "e">>

\* arguments of extract_title_for_filename
TitleInputs ==
  {Doc(<<Span(<<"title">>, <<t>>)>>, <<>>, <<>>) : t \in StringsOver({NBSP, " ", "a", "/"})}
    \cup { Doc(<<>>, <<>>, <<>>),
           Doc(<<SpanDecoy>>, <<>>, <<>>),
           Doc(<<SpanDecoy, SpanMT, SpanN>>, <<>>, <<>>),
           Doc(<<SpanN>>, <<>>, <<>>),
           Doc(<<SpanNoSep>>, <<>>, <<>>),
           Doc(<<Span(<<"title">>, << <<"a", NBSP>>, <<NBSP, "b", NBSP>>, <<NBSP, "c">> >>)>>, <<>>, <<>>),
           Doc(<<Span(<<"title">>, <<ExampleTitle>>)>>, <<>>, <<>>) }

PAside == P(TRUE, <<"aside", "body">>, << <<"s">> >>)
PDeep == P(FALSE, <<"span", "div", "footer", "body">>, << <<"t">> >>)
PHeader == P(FALSE, <<"header">>, << <<"h">> >>)
Elements == {PA, PB, PClass, PNav, PBlank, PAside, PDeep, PHeader}

\* arguments of extract_relevant_paragraphs: every short sequence of the
\* elements above, and every paragraph of at most two short text nodes
ParagraphInputs ==
  {Doc(<<>>, ps, <<>>) : ps \in UNION {[1..n -> Elements] : n \in 0..MaxParas}}
    \cup {Doc(<<>>, <<P(FALSE, <<"body">>, nodes)>>, <<>>) :
            nodes \in UNION {[1..n -> StringsOver({" ", "a"})] : n \in 0..2}}

\* a call with a string argument, and a call with a document argument
CallOnText(fn, text) == [fn |-> fn, arg |-> text, doc |-> Doc(<<>>, <<>>, <<>>)]
CallOnDoc(fn, doc) == [fn |-> fn, arg |-> None, doc |-> doc]

InitCall ==
  /\ call \in {CallOnText("sanitize_filename", a) : a \in SanitizeInputs}
         \cup {CallOnDoc("extract_title_for_filename", a) : a \in TitleInputs}
         \cup {CallOnDoc("extract_relevant_paragraphs", a) : a \in ParagraphInputs}
  /\ result = None
  /\ pc = "CALL"
  /\ web = <<>>
  /\ fs0 = <<>>
  /\ fs = <<>>
  /\ initial_url = EmptyStr
  /\ current_url = None
  /\ output_filename = None
  /\ first_page_processed = FALSE
  /\ file_mode = None
  /\ soup = None
  /\ paragraphs = <<>>
  /\ log = <<>>
  /\ summary = None

CrawlIdle ==
  UNCHANGED <<web, fs, fs0, initial_url, current_url, output_filename,
              first_page_processed, file_mode, soup, paragraphs, log, summary, call>>

\* lines 7-22
CallSanitize ==
  /\ pc = "CALL"
  /\ call.fn = "sanitize_filename"
  /\ result' = sanitize_filename(call.arg)
  /\ pc' = "RETURNED"
  /\ CrawlIdle

\* lines 24-53
CallExtractTitle ==
  /\ pc = "CALL"
  /\ call.fn = "extract_title_for_filename"
  /\ result' = extract_title_for_filename(call.doc)
  /\ pc' = "RETURNED"
  /\ CrawlIdle

\* lines 55-76
CallExtractParagraphs ==
  /\ pc = "CALL"
  /\ call.fn = "extract_relevant_paragraphs"
  /\ result' = extract_relevant_paragraphs(call.doc)
  /\ pc' = "RETURNED"
  /\ CrawlIdle

NextCall ==
  \/ CallSanitize
  \/ CallExtractTitle
  \/ CallExtractParagraphs

SpecCall == InitCall /\ [][NextCall]_vars

Returned(fn) == pc = "RETURNED" /\ call.fn = fn

\* C13: whatever its argument, sanitize_filename returns a string of 1 to 200
\* characters with none of \ / * ? : " < > | and no whitespace character.
C13_SanitizedNameSafe ==
  Returned("sanitize_filename") =>
    /\ result # None
    /\ Len(result) >= 1
    /\ Len(result) <= 200
    /\ \A i \in 1..Len(result) :
         /\ result[i] \notin {"\\", "/", "*", "?", ":", "\"", "<", ">", "|"}
         /\ result[i] \notin {" ", "\t", "\n", NBSP}

\* an argument longer than the limit, with whitespace inside, was cut to 200
C13_Witness ==
  /\ Returned("sanitize_filename")
  /\ Len(call.arg) > 200
  /\ \E i \in 2..(Len(call.arg) - 1) : call.arg[i] = NBSP
  /\ Len(result) = 200

\* the transformed name of section 4.1, position by position: forbidden
\* characters go; whitespace before the first or after the last other
\* character goes; of every remaining run of whitespace the first position
\* stays, as "_"; the first 200 positions that stay are the name
Transformed(s) ==
  LET solid == {i \in 1..Len(s) : s[i] \notin {" ", "\t", "\n", NBSP}}
      first == CHOOSE i \in solid : \A j \in solid : i <= j
      last == CHOOSE i \in solid : \A j \in solid : j <= i
      stays(i) == IF i \in solid THEN s[i] \notin ForbiddenChars
                  ELSE first < i /\ i < last /\ (i - 1) \in solid
      kept == SelectSeq([i \in 1..Len(s) |-> i], stays)
      name == [k \in 1..Len(kept) |-> IF kept[k] \in solid THEN s[kept[k]] ELSE "_"]
  IN  IF solid = {} THEN <<>>
      ELSE IF Len(name) > 200 THEN SubSeq(name, 1, 200) ELSE name

FallsBack(t) ==
  \/ t = <<>>
  \/ \A i \in 1..Len(t) : t[i] = "."
  \/ Lower(t) = Untitled

OnlyDisallowedOrSpace(s) ==
  \A i \in 1..Len(s) : s[i] \in ForbiddenChars \cup {" ", "\t", "\n", NBSP}

\* C14 as stated: "untitled" for an empty argument, for an argument of only
\* disallowed characters and/or whitespace, and when the transformed name is
\* empty, only dots or "untitled" in any case; the transformed name otherwise.
C14_Original ==
  Returned("sanitize_filename") =>
    result = IF \/ call.arg \in {None, EmptyStr}
                \/ OnlyDisallowedOrSpace(call.arg)
                \/ FallsBack(Transformed(call.arg))
             THEN Untitled ELSE Transformed(call.arg)

\* C14 amended: "untitled" for an empty argument and when the transformed name
\* is empty, only dots or "untitled" in any case; the transformed name
\* otherwise (also for disallowed characters separated by whitespace).
C14_FallbackOrTransformed ==
  Returned("sanitize_filename") =>
    result = IF call.arg \in {None, EmptyStr} \/ FallsBack(Transformed(call.arg))
             THEN Untitled ELSE Transformed(call.arg)

\* an argument that spells "untitled" in another case, with a character to drop
C14_Witness ==
  /\ Returned("sanitize_filename")
  /\ result = Untitled
  /\ Transformed(call.arg) # Untitled
  /\ Transformed(call.arg) # <<>>
  /\ Transformed(call.arg) # call.arg
  /\ \E i \in 1..Len(call.arg) : call.arg[i] # "."

\* the title text of a document: the text of its first span of class title
HasTitleSpan(doc) == \E i \in 1..Len(doc.spans) : "title" \in Range(doc.spans[i].classes)
TitleText(doc) ==
  LET i == CHOOSE i \in 1..Len(doc.spans) :
             /\ "title" \in Range(doc.spans[i].classes)
             /\ \A j \in 1..(i - 1) : "title" \notin Range(doc.spans[j].classes)
  IN  Concat(doc.spans[i].strings)

HasSeparator(t) == \E i \in 1..(Len(t) - 1) : t[i] = NBSP /\ t[i + 1] = NBSP

\* the trimmed text after the first two consecutive non-breaking spaces
Candidate(t) ==
  LET i == CHOOSE i \in 1..(Len(t) - 1) :
             /\ t[i] = NBSP /\ t[i + 1] = NBSP
             /\ \A j \in 1..(i - 1) : ~(t[j] = NBSP /\ t[j + 1] = NBSP)
  IN  Strip(SubSeq(t, i + 2, Len(t)))

\* C15: extract_title_for_filename returns "untitled" without a title span,
\* without the separator in its text, or with nothing but whitespace after
\* the first separator; otherwise sanitize_filename of the trimmed text after
\* the first separator ("Chapter", separator, "My Title" gives "My_Title").
C15_TitleExtraction ==
  Returned("extract_title_for_filename") =>
    /\ result = IF ~HasTitleSpan(call.doc) THEN Untitled
                ELSE IF ~HasSeparator(TitleText(call.doc)) THEN Untitled
                ELSE IF Candidate(TitleText(call.doc)) = <<>> THEN Untitled
                ELSE sanitize_filename(Candidate(TitleText(call.doc)))
    /\ (call.doc.spans = <<Span(<<"title">>, <<ExampleTitle>>)>> =>
          result = <<"M", "y", "_", "T", "i", "t", "l", "e">>)

\* a title with two separators, cut at the first
C15_Witness ==
  /\ Returned("extract_title_for_filename")
  /\ HasTitleSpan(call.doc)
  /\ HasSeparator(TitleText(call.doc))
  /\ HasSeparator(Candidate(TitleText(call.doc)))
  /\ result # Untitled

\* a paragraph element that section 4.3 keeps
Qualifies(p) ==
  /\ ~p.hasClass
  /\ \A i \in 1..Len(p.parents) : p.parents[i] \notin {"header", "footer", "nav", "aside"}
  /\ get_text_strip(p) # <<>>

\* C16: extract_relevant_paragraphs returns, in document order, the texts of
\* exactly the paragraph elements without a class attribute, without a
\* header, footer, nav or aside ancestor at any depth, and with a non-empty
\* stripped text; no returned text is empty.
C16_ParagraphFilter ==
  Returned("extract_relevant_paragraphs") =>
    LET kept == SelectSeq(call.doc.ps, Qualifies)
    IN  /\ Len(result) = Len(kept)
        /\ \A k \in 1..Len(kept) : result[k] = get_text_strip(kept[k])
        /\ \A k \in 1..Len(result) : result[k] # <<>>

\* of three paragraphs the middle one, deep inside a footer, was left out
C16_Witness ==
  /\ Returned("extract_relevant_paragraphs")
  /\ call.doc.ps = <<PA, PDeep, PB>>
  /\ Len(result) = 2

\* every run of whitespace of s replaced by one space
SingleSpaced(s) ==
  LET starts == SelectSeq([i \in 1..Len(s) |-> i],
                          LAMBDA i : ~IsSpace(s[i]) \/ ~IsSpace(s[i - 1]))
  IN  [k \in 1..Len(starts) |-> IF IsSpace(s[starts[k]]) THEN " " ELSE s[starts[k]]]

\* the visible text of a paragraph, trimmed, its whitespace runs collapsed
VisibleText(p) == SingleSpaced(Strip(Concat(p.strings)))

\* C18 as stated: each returned text is the paragraph's visible text with the
\* ends stripped and every internal run of whitespace collapsed, also the
\* whitespace between the texts of adjacent child nodes.
C18_CollapsedText ==
  Returned("extract_relevant_paragraphs") =>
    LET kept == SelectSeq(call.doc.ps, Qualifies)
    IN  /\ Len(result) = Len(kept)
        /\ \A k \in 1..Len(kept) : result[k] = VisibleText(kept[k])

\* the paragraphs of the pages at urls, page after page
RECURSIVE ParagraphsOf(_)
ParagraphsOf(urls) ==
  IF urls = <<>> THEN <<>>
  ELSE extract_relevant_paragraphs(web[Head(urls)]) \o ParagraphsOf(Tail(urls))

\* C19 as stated: after a run in which nothing failed, the file is the
\* paragraphs of all processed pages, in fetch order and in-page order, joined
\* by exactly one two-newline separator, so it neither begins nor ends with a
\* separator, whatever pages are empty (also an empty first page).
C19_JoinedBySeparator ==
  (RunOver /\ NoFailure /\ Len(Fetched) > 0) =>
     Content(fs, output_filename) = JoinParagraphs(ParagraphsOf(Fetched))

\* the start page links to a second page, which links back to the start page
CycleSite ==
  /\ initial_url \in DOMAIN web
  /\ ~EndOfSeries(web[initial_url])
  /\ Resolved(web[initial_url], initial_url) \in (DOMAIN web) \ {initial_url}
  /\ LET u2 == Resolved(web[initial_url], initial_url)
     IN  /\ ~EndOfSeries(web[u2])
         /\ Resolved(web[u2], u2) = initial_url

\* C17: on a cycle of two pages, while every fetch and write succeeds, the
\* loop guard never fires and the crawl never reaches TERMINATED: the two
\* pages are fetched in turn, every page after the first is appended to the
\* file, and the loop is always about to fetch a page of the cycle.
C17_CycleNeverTerminates ==
  (CycleSite /\ NoFailure) =>
     /\ ~RunOver
     /\ \A i \in 1..Len(OpsOf("resolve")) : OpsOf("resolve")[i].res = "next"
     /\ \A i \in 1..Len(Fetched) :
          Fetched[i] = IF i % 2 = 1 THEN initial_url
                       ELSE Resolved(web[initial_url], initial_url)
     /\ \A i \in 1..Len(Opens) : Opens[i].res = IF i = 1 THEN "w" ELSE "a"
     /\ (pc \in {"FETCHING", "DELAYING"} => current_url \in DOMAIN web)

\* the crawl is back on the start page after a full round of the cycle
C17_Witness ==
  /\ CycleSite
  /\ NoFailure
  /\ Len(Fetched) = 3
  /\ Fetched[3] = initial_url
  /\ Len(Opens) = 3

\* the URLs the next links lead through from url, at most n links followed
RECURSIVE ChainFrom(_, _)
ChainFrom(url, n) ==
  IF n = 0 \/ url \notin DOMAIN web THEN <<url>>
  ELSE IF EndOfSeries(web[url]) THEN <<url>>
  ELSE <<url>> \o ChainFrom(Resolved(web[url], url), n - 1)

Chain == ChainFrom(initial_url, Cardinality(Urls) + 1)

\* the pages reachable from the start URL form a finite chain, no URL twice
ChainSite ==
  /\ initial_url # EmptyStr
  /\ \A i, j \in 1..Len(Chain) : i # j => Chain[i] # Chain[j]
  /\ \/ Last(Chain) \notin DOMAIN web
     \/ EndOfSeries(web[Last(Chain)])

\* the fetches so far follow the chain, each of its URLs at most once
FetchedAlongChain ==
  /\ Len(Fetched) <= Len(Chain)
  /\ \A i \in 1..Len(Fetched) : Fetched[i] = Chain[i]

\* C20: when the pages reachable from the start URL by next links form a
\* finite chain without a repeated URL and every fetch returns, the crawl
\* eventually reaches TERMINATED, having fetched each page of the chain at
\* most once.
C20_ChainTerminates ==
  /\ [](ChainSite => FetchedAlongChain)
  /\ ((ChainSite /\ ~RunOver) ~> (pc = "TERMINATED" /\ FetchedAlongChain))

\* a chain of two pages and a link to a page the site does not serve, ended
\* by the failure of the third fetch
C20_Witness ==
  /\ ChainSite
  /\ pc = "TERMINATED"
  /\ Len(Chain) = 3
  /\ Len(Fetched) = 3
====
